---- MODULE Spec2Model ----
(***************************************************************************)
(* A model of the crowd analysis pipeline of                               *)
(* backend/python_integration/crowd_analysis.py: the pure analysis         *)
(* functions of CrowdAnalyzer (analyze_crowd_density, detect_crowd_events, *)
(* send_to_backend) and the sampling loop CrowdAnalyzer.run_analysis.      *)
(*                                                                         *)
(* Real numbers.  The code computes the density with binary floating       *)
(* point: area_sqm = (w*h)/10000 and density = total/area_sqm.  The model  *)
(* holds such a value as an exact fraction [num, den] in lowest terms and  *)
(* compares fractions by cross multiplication.  For frame sizes and head   *)
(* counts below 2^26 the nearest fraction to a threshold differs from it   *)
(* by far more than one unit in the last place of a double, and the        *)
(* thresholds 2.0 and 1.5 are doubles, so every comparison of the code     *)
(* gives the answer the exact comparison gives.                            *)
(*                                                                         *)
(* A detection is modelled by its 'center' field, the only field the       *)
(* analysis reads; 'bbox' and 'confidence' are read by draw_annotations    *)
(* alone, which draws on the frame and decides nothing.                    *)
(***************************************************************************)
EXTENDS Integers, Sequences, FiniteSets, TLC

VARIABLES
    pc,             \* position of the control flow
    density_zones,  \* self.density_zones
    frame_shape,    \* frame.shape[:2], as <<h, w>>
    detections,     \* the detection list last returned by detect_people
    analysis_data,  \* the report last computed
    events,         \* the event list last computed
    frame_count,    \* run_analysis: frame_count
    show_video,     \* run_analysis: parameter
    save_video,     \* run_analysis: parameter
    cap,            \* self.cap: "none", "unopened", "open" or "released"
    out,            \* run_analysis: out; "none", "open" or "released"
    inflight,       \* the envelope of the request in flight, or NoData
    keyPending,     \* the key waiting in the window's event queue
    exitReason,     \* why the loop was left
    cancelled,      \* the blocking call an interrupt cut short
    key,            \* run_analysis: key, the value cv2.waitKey last returned
    detLog,         \* history: frames detect_people returned on
    anaLog,         \* history: frames analyze_crowd_density ran on
    evtLog,         \* history: frames detect_crowd_events ran on
    sentLog,        \* history: frames whose envelope went to send_to_backend
    deliveryLog,    \* history: frames whose request ended
    lastDelivery,   \* history: outcome and log line of the last request
    shown,          \* history: frames handed to cv2.imshow
    written         \* history: frames handed to the video writer

vars == <<pc, density_zones, frame_shape, detections, analysis_data, events,
          frame_count, show_video, save_video, cap, out, inflight,
          keyPending, exitReason, cancelled, key, detLog, anaLog,
          evtLog, sentLog, deliveryLog, lastDelivery, shown, written>>

loopVars == <<frame_count, show_video, save_video, cap, out, inflight,
              keyPending, exitReason, cancelled, key, detLog,
              anaLog, evtLog, sentLog, deliveryLog, lastDelivery, shown,
              written>>

----------------------------------------------------------------------------
(* Bounds of the model *)

\* longest detection list drawn for analyze_crowd_density
MaxDets == 3
\* frames the capture source delivers before it runs dry
MaxFrames == 6
\* longest detection list detect_people returns inside the loop
MaxHeads == 2

----------------------------------------------------------------------------
(* Program constants *)

AreaDivisor == 10000
SamplingDivisor == 3
OvercrowdThreshold == 20
HighSeverityThreshold == 30
GatheringThreshold == 8

----------------------------------------------------------------------------
(* Exact fractions standing for the code's floats *)

RECURSIVE GCD(_, _)
GCD(a, b) == IF b = 0 THEN a ELSE GCD(b, a % b)

\* the fraction n/d (n >= 0, d > 0) in lowest terms
Rat(n, d) == [num |-> n \div GCD(n, d), den |-> d \div GCD(n, d)]
RatGT(a, b) == a.num * b.den > b.num * a.den

\* the literals 2.0, 1.5 and 0.8 of the classification
CriticalBound == Rat(2, 1)
HighBound == Rat(3, 2)
MediumBound == Rat(4, 5)

----------------------------------------------------------------------------
(* Zones *)

create_density_zones ==
    [entrance |-> [x |-> 0,   y |-> 0,   w |-> 200, h |-> 150],
     center   |-> [x |-> 200, y |-> 150, w |-> 400, h |-> 300],
     exit     |-> [x |-> 600, y |-> 0,   w |-> 200, h |-> 150]]

\* the membership test with both comparisons strict: a mutant of InZone
InZoneStrict(zone, detection) ==
    /\ zone.x < detection.center[1]
    /\ detection.center[1] < zone.x + zone.w
    /\ zone.y < detection.center[2]
    /\ detection.center[2] < zone.y + zone.h

\* zone['x'] <= center_x <= zone['x'] + zone['w'] and the same for y
InZone(zone, detection) ==
    /\ zone.x <= detection.center[1]
    /\ detection.center[1] <= zone.x + zone.w
    /\ zone.y <= detection.center[2]
    /\ detection.center[2] <= zone.y + zone.h

\* the inner loop: count += 1 for each detection inside the zone
RECURSIVE ZoneCount(_, _)
ZoneCount(zone, dets) ==
    IF dets = <<>> THEN 0
    ELSE (IF InZone(zone, Head(dets)) THEN 1 ELSE 0) + ZoneCount(zone, Tail(dets))

----------------------------------------------------------------------------
(* analyze_crowd_density *)

\* the classification with non-strict bounds: a mutant of DensityLevel
DensityLevelInclusive(density) ==
    IF ~RatGT(CriticalBound, density) THEN "critical"
    ELSE IF ~RatGT(HighBound, density) THEN "high"
    ELSE IF ~RatGT(MediumBound, density) THEN "medium"
    ELSE "low"

\* if density > 2.0 ... elif density > 1.5 ... elif density > 0.8 ... else
DensityLevel(density) ==
    IF RatGT(density, CriticalBound) THEN "critical"
    ELSE IF RatGT(density, HighBound) THEN "high"
    ELSE IF RatGT(density, MediumBound) THEN "medium"
    ELSE "low"

analyze_crowd_density(dets, shape, zones) ==
    LET h == shape[1]
        w == shape[2]
        zone_counts == [z \in DOMAIN zones |-> ZoneCount(zones[z], dets)]
        total_people == Len(dets)
        area_sqm == Rat(w * h, AreaDivisor)
        density == IF area_sqm.num > 0
                   THEN Rat(total_people * area_sqm.den, area_sqm.num)
                   ELSE Rat(0, 1)
    IN  [total_count      |-> total_people,
         density_per_sqm  |-> density,
         density_level    |-> DensityLevel(density),
         zone_counts      |-> zone_counts,
         frame_dimensions |-> [width |-> w, height |-> h]]

----------------------------------------------------------------------------
(* detect_crowd_events *)

\* max(zone_counts.values()) if zone_counts else 0
MaxZoneCount(zone_counts) ==
    IF DOMAIN zone_counts = {} THEN 0
    ELSE CHOOSE m \in {zone_counts[z] : z \in DOMAIN zone_counts} :
             \A z \in DOMAIN zone_counts : zone_counts[z] <= m

OvercrowdingEvent(data) ==
    [action        |-> "overcrowding_detected",
     severity      |-> IF data.total_count > HighSeverityThreshold
                       THEN "high" ELSE "medium",
     description   |-> <<"High crowd density detected: ", data.total_count, " people">>,
     crowd_count   |-> data.total_count,
     density_level |-> data.density_level]

GatheringEvent(data) ==
    [action        |-> "crowd_gathering",
     severity      |-> "medium",
     description   |-> <<"Crowd gathering detected in zone">>,
     crowd_count   |-> data.total_count,
     density_level |-> data.density_level]

\* the gathering rule made an alternative of the overcrowding rule (elif):
\* a mutant of detect_crowd_events
detect_crowd_events_exclusive(data) ==
    IF data.total_count > OvercrowdThreshold THEN <<OvercrowdingEvent(data)>>
    ELSE IF MaxZoneCount(data.zone_counts) > GatheringThreshold
         THEN <<GatheringEvent(data)>>
         ELSE <<>>

\* the overcrowding rule with an inclusive threshold and the severities
\* exchanged at 30: a mutant of detect_crowd_events
detect_crowd_events_inclusive(data) ==
    (IF data.total_count >= OvercrowdThreshold
     THEN <<[OvercrowdingEvent(data) EXCEPT !.severity =
                IF data.total_count >= HighSeverityThreshold
                THEN "high" ELSE "medium"]>>
     ELSE <<>>)
    \o
    (IF MaxZoneCount(data.zone_counts) > GatheringThreshold
     THEN <<GatheringEvent(data)>>
     ELSE <<>>)

detect_crowd_events(data) ==
    (IF data.total_count > OvercrowdThreshold
     THEN <<OvercrowdingEvent(data)>>
     ELSE <<>>)
    \o
    (IF MaxZoneCount(data.zone_counts) > GatheringThreshold
     THEN <<GatheringEvent(data)>>
     ELSE <<>>)

----------------------------------------------------------------------------
(* Inputs of the pure functions *)

NoData == [unset |-> TRUE]

Detection(cx, cy) == [center |-> <<cx, cy>>]

RECURSIVE Repeat(_, _)
Repeat(d, n) == IF n <= 0 THEN <<>> ELSE <<d>> \o Repeat(d, n - 1)

SeqsUpTo(S, n) == UNION {[1..k -> S] : k \in 0..n}

\* frame.shape[:2] = (h, w): a degenerate frame, frames whose area puts a
\* head count of 1, 2 or 3 exactly on a threshold, and the camera's 1280x720
Shapes == {<<100, 0>>, <<100, 50>>, <<100, 100>>, <<100, 125>>,
           <<100, 200>>, <<720, 1280>>}

CameraShape == <<720, 1280>>

\* centers inside, on the edges of, on the shared corners of, and outside
\* the default zones
EdgePoints == {Detection(0, 0), Detection(200, 75), Detection(201, 75),
               Detection(200, 150), Detection(400, 300), Detection(600, 150),
               Detection(800, 150), Detection(801, 75)}

\* one zone covering the whole frame
WholeFrameZones(shape) ==
    [frame |-> [x |-> 0, y |-> 0, w |-> shape[2], h |-> shape[1]]]

\* a configuration without zones
NoZones == [z \in {} |-> [x |-> 0, y |-> 0, w |-> 0, h |-> 0]]

\* largest head count drawn for detect_crowd_events
MaxCount == 32

\* a in the center zone, b outside every zone
CrowdList(a, b) == Repeat(Detection(400, 300), a) \o Repeat(Detection(201, 75), b)

IdleLoop ==
    /\ frame_count = 0
    /\ show_video = FALSE
    /\ save_video = FALSE
    /\ cap = "none"
    /\ out = "none"
    /\ inflight = NoData
    /\ keyPending = "none"
    /\ exitReason = "none"
    /\ cancelled = "none"
    /\ key = "none"
    /\ detLog = <<>>
    /\ anaLog = <<>>
    /\ evtLog = <<>>
    /\ sentLog = <<>>
    /\ deliveryLog = <<>>
    /\ lastDelivery = NoData
    /\ shown = <<>>
    /\ written = <<>>

\* analyze_crowd_density applied to the inputs of the state
AnalyzeCall ==
    /\ pc = "analyze_call"
    /\ analysis_data' = analyze_crowd_density(detections, frame_shape, density_zones)
    /\ pc' = "events_call"
    /\ UNCHANGED <<density_zones, frame_shape, detections, events, loopVars>>

\* detect_crowd_events applied to the report of the state
EventsCall ==
    /\ pc = "events_call"
    /\ events' = detect_crowd_events(analysis_data)
    /\ pc' = "events_done"
    /\ UNCHANGED <<density_zones, frame_shape, detections, analysis_data, loopVars>>

PureNext == AnalyzeCall \/ EventsCall

\* detection lists over the edge points, any frame shape, the default zones
\* or one zone covering the frame
InitAnalyze ==
    /\ pc = "analyze_call"
    /\ frame_shape \in Shapes
    /\ detections \in SeqsUpTo(EdgePoints, MaxDets)
    /\ density_zones \in {create_density_zones, WholeFrameZones(frame_shape)}
    /\ analysis_data = NoData
    /\ events = <<>>
    /\ IdleLoop

SpecAnalyze == InitAnalyze /\ [][PureNext]_vars

\* crowds of up to MaxCount heads, any frame shape, the default zones or none
InitEvents ==
    /\ pc = "analyze_call"
    /\ frame_shape \in Shapes
    /\ \E a \in 0..MaxCount : \E b \in 0..(MaxCount - a) :
           detections = CrowdList(a, b)
    /\ density_zones \in {create_density_zones, NoZones}
    /\ analysis_data = NoData
    /\ events = <<>>
    /\ IdleLoop

SpecEvents == InitEvents /\ [][PureNext]_vars

Analyzed == pc \in {"events_call", "events_done"}

LevelRank(level) ==
    CASE level = "low" -> 0
      [] level = "medium" -> 1
      [] level = "high" -> 2
      [] level = "critical" -> 3

----------------------------------------------------------------------------
(* send_to_backend *)

\* what requests.post does: it raises, or it returns a response
Raises(exc) == [exc |-> exc, status_code |-> 0]
Responds(status) == [exc |-> "none", status_code |-> status]

Outcomes == {Raises("ConnectionError"), Raises("Timeout"),
             Responds(200), Responds(201), Responds(500)}

\* send_to_backend without its try/except: a mutant of send_to_backend
send_to_backend_unguarded(data, outcome) ==
    IF outcome.exc # "none"
    THEN [raised |-> TRUE, log |-> "none"]
    ELSE IF outcome.status_code = 200
         THEN [raised |-> ~("total_count" \in DOMAIN data), log |-> "sent"]
         ELSE [raised |-> FALSE, log |-> "backend_response"]

\* The result of one call: whether an exception leaves the function, and the
\* line it prints: "sent" (line 218), "backend_response" (line 220) or
\* "failed" (line 222).  On status 200 the success line reads
\* data['total_count']; when data has no such key the KeyError is raised
\* inside the try and caught by 'except Exception', which prints "failed".
send_to_backend(data, outcome) ==
    IF outcome.exc # "none"
    THEN [raised |-> FALSE, log |-> "failed"]
    ELSE IF outcome.status_code = 200
         THEN IF "total_count" \in DOMAIN data
              THEN [raised |-> FALSE, log |-> "sent"]
              ELSE [raised |-> FALSE, log |-> "failed"]
         ELSE [raised |-> FALSE, log |-> "backend_response"]

----------------------------------------------------------------------------
(* run_analysis *)

\* The default zones cut the frame into six classes of centers: inside
\* 'entrance' alone, 'center' alone, 'exit' alone, on the corner (200,150)
\* that 'entrance' and 'center' share, on the corner (600,150) that 'center'
\* and 'exit' share, and outside every zone.  One center stands for each.
ZonePoints == <<Detection(100, 75), Detection(400, 300), Detection(700, 75),
                Detection(200, 150), Detection(600, 150), Detection(1000, 600)>>

\* k[1] detections at ZonePoints[1], then k[2] at ZonePoints[2], ...
RECURSIVE ListOfCounts(_, _)
ListOfCounts(k, i) ==
    IF i > Len(ZonePoints) THEN <<>>
    ELSE Repeat(ZonePoints[i], k[i]) \o ListOfCounts(k, i + 1)

RECURSIVE SumCounts(_, _)
SumCounts(k, i) ==
    IF i > Len(ZonePoints) THEN 0 ELSE k[i] + SumCounts(k, i + 1)

\* What detect_people returns on a frame of the camera: any list of persons,
\* the empty one included (the YOLO path), or 1 to 14 boxes placed at random
\* (the fallback _simulate_detection).  The loop reads a detection through
\* the zone tests and the length of the list alone, so a list is held by the
\* number of its centers in each class of ZonePoints, each center moved to
\* the point of its class and the classes in the order of ZonePoints: every
\* list of up to MaxHeads detections, with every combination of counts.
DetectionOutputs ==
    {ListOfCounts(k, 1) :
        k \in {c \in [1..Len(ZonePoints) -> 0..MaxHeads] :
                  SumCounts(c, 1) <= MaxHeads}}

\* the positions inside the try block of run_analysis
LoopPcs == {"read", "detect", "analyze", "classify", "send", "dispatch",
            "show", "record", "write", "wait_key", "handle_key"}

\* the positions inside the finally block of run_analysis
CleanupPcs == {"release_cap", "release_out", "destroy_windows"}

\* the calls that block on a collaborator
BlockingPcs == {"read", "detect", "dispatch"}

\* frame_count % 3 == 0
IsSampled(n) == n % SamplingDivisor = 0

\* run_analysis is entered: nothing has run yet
Init ==
    /\ pc = "init"
    /\ density_zones = create_density_zones
    /\ frame_shape = CameraShape
    /\ detections = <<>>
    /\ analysis_data = NoData
    /\ events = <<>>
    /\ frame_count = 0
    /\ show_video \in BOOLEAN
    /\ save_video \in BOOLEAN
    /\ cap = "none"
    /\ out = "none"
    /\ inflight = NoData
    /\ keyPending = "none"
    /\ exitReason = "none"
    /\ cancelled = "none"
    /\ key = "none"
    /\ detLog = <<>>
    /\ anaLog = <<>>
    /\ evtLog = <<>>
    /\ sentLog = <<>>
    /\ deliveryLog = <<>>
    /\ lastDelivery = NoData
    /\ shown = <<>>
    /\ written = <<>>

\* if not self.initialize_camera(): return.  The capture opens and the loop
\* is entered; or isOpened() is False and initialize_camera raises and catches
\* its own Exception; or a call of initialize_camera raises an Exception:
\* cv2.VideoCapture (self.cap stays None), or cap.set or cap.isOpened after
\* it (self.cap is set, opened or not).  In the last two cases
\* initialize_camera returns False and run_analysis returns, without the loop
\* and without the cleanup.
InitializeCamera ==
    /\ pc = "init"
    /\ \E result \in {"opened", "not_opened", "raised"} :
          /\ cap' \in CASE result = "opened" -> {"open"}
                       [] result = "not_opened" -> {"unopened"}
                       [] result = "raised" -> {"none", "unopened", "open"}
          /\ pc' = IF result = "opened" THEN "read" ELSE "returned"
    /\ UNCHANGED <<density_zones, frame_shape, detections, analysis_data,
                   events, frame_count, show_video, save_video, out,
                   inflight, keyPending, exitReason, cancelled,
                   key, detLog, anaLog, evtLog, sentLog,
                   deliveryLog, lastDelivery, shown, written>>

\* ret, frame = self.cap.read(); break on failure; frame_count += 1; the
\* sampling test.  The source delivers at most MaxFrames frames.
Read ==
    /\ pc = "read"
    /\ \E ret \in BOOLEAN :
          /\ ret => frame_count < MaxFrames
          /\ IF ~ret
             THEN /\ pc' = "release_cap"
                  /\ exitReason' = "read_failed"
                  /\ UNCHANGED frame_count
             ELSE /\ frame_count' = frame_count + 1
                  /\ pc' = IF IsSampled(frame_count + 1) THEN "detect" ELSE "show"
                  /\ UNCHANGED exitReason
    /\ UNCHANGED <<density_zones, frame_shape, detections, analysis_data,
                   events, show_video, save_video, cap, out, inflight,
                   keyPending, cancelled, key, detLog, anaLog,
                   evtLog, sentLog, deliveryLog, lastDelivery, shown,
                   written>>

\* detections = self.detect_people(frame) returns
Detect ==
    /\ pc = "detect"
    /\ detections' \in DetectionOutputs
    /\ detLog' = Append(detLog, frame_count)
    /\ pc' = "analyze"
    /\ UNCHANGED <<density_zones, frame_shape, analysis_data, events,
                   frame_count, show_video, save_video, cap, out, inflight,
                   keyPending, exitReason, cancelled, key, anaLog,
                   evtLog, sentLog, deliveryLog, lastDelivery, shown,
                   written>>

\* analysis_data = self.analyze_crowd_density(detections, frame.shape)
Analyze ==
    /\ pc = "analyze"
    /\ analysis_data' = analyze_crowd_density(detections, frame_shape, density_zones)
    /\ anaLog' = Append(anaLog, frame_count)
    /\ pc' = "classify"
    /\ UNCHANGED <<density_zones, frame_shape, detections, events,
                   frame_count, show_video, save_video, cap, out, inflight,
                   keyPending, exitReason, cancelled, key, detLog,
                   evtLog, sentLog, deliveryLog, lastDelivery, shown,
                   written>>

\* events = self.detect_crowd_events(analysis_data)
Classify ==
    /\ pc = "classify"
    /\ events' = detect_crowd_events(analysis_data)
    /\ evtLog' = Append(evtLog, frame_count)
    /\ pc' = "send"
    /\ UNCHANGED <<density_zones, frame_shape, detections, analysis_data,
                   frame_count, show_video, save_video, cap, out, inflight,
                   keyPending, exitReason, cancelled, key, detLog,
                   anaLog, sentLog, deliveryLog, lastDelivery, shown,
                   written>>

\* backend_data = {...}: the wall clock read of the cycle is held as the
\* cycle's frame number
BackendData ==
    [timestamp |-> frame_count,
     camera_id |-> "CAM001",
     location  |-> "Main Entrance",
     analysis  |-> analysis_data,
     events    |-> events]

\* the envelope is built and send_to_backend posts it: the request is in flight
Send ==
    /\ pc = "send"
    /\ inflight' = BackendData
    /\ sentLog' = Append(sentLog, frame_count)
    /\ pc' = "dispatch"
    /\ UNCHANGED <<density_zones, frame_shape, detections, analysis_data,
                   events, frame_count, show_video, save_video, cap, out,
                   keyPending, exitReason, cancelled, key, detLog,
                   anaLog, evtLog, deliveryLog, lastDelivery, shown, written>>

\* requests.post ends with an outcome, send_to_backend prints and returns (or
\* lets an exception out, which leaves the loop through the finally block)
DispatchReturn ==
    /\ pc = "dispatch"
    /\ \E outcome \in Outcomes :
          LET res == send_to_backend(inflight, outcome)
          IN  /\ lastDelivery' = [frame |-> frame_count, outcome |-> outcome,
                                  raised |-> res.raised, log |-> res.log]
              /\ pc' = IF res.raised THEN "release_cap" ELSE "show"
              /\ exitReason' = IF res.raised THEN "exception" ELSE exitReason
    /\ deliveryLog' = Append(deliveryLog, frame_count)
    /\ inflight' = NoData
    /\ UNCHANGED <<density_zones, frame_shape, detections, analysis_data,
                   events, frame_count, show_video, save_video, cap, out,
                   keyPending, cancelled, key, detLog, anaLog,
                   evtLog, sentLog, shown, written>>

\* if show_video: draw_annotations on a sampled frame, then cv2.imshow
Show ==
    /\ pc = "show"
    /\ shown' = IF show_video
                THEN Append(shown, [frame |-> frame_count,
                                    annotated |-> IsSampled(frame_count)])
                ELSE shown
    /\ pc' = "record"
    /\ UNCHANGED <<density_zones, frame_shape, detections, analysis_data,
                   events, frame_count, show_video, save_video, cap, out,
                   inflight, keyPending, exitReason, cancelled,
                   key, detLog, anaLog, evtLog, sentLog,
                   deliveryLog, lastDelivery, written>>

\* if save_video: if out is None: out = cv2.VideoWriter(...)
OpenWriter ==
    /\ pc = "record"
    /\ out' = IF save_video /\ out = "none" THEN "open" ELSE out
    /\ pc' = IF save_video THEN "write" ELSE "wait_key"
    /\ UNCHANGED <<density_zones, frame_shape, detections, analysis_data,
                   events, frame_count, show_video, save_video, cap,
                   inflight, keyPending, exitReason, cancelled,
                   key, detLog, anaLog, evtLog, sentLog,
                   deliveryLog, lastDelivery, shown, written>>

\* out.write(frame)
Write ==
    /\ pc = "write"
    /\ written' = Append(written, frame_count)
    /\ pc' = "wait_key"
    /\ UNCHANGED <<density_zones, frame_shape, detections, analysis_data,
                   events, frame_count, show_video, save_video, cap, out,
                   inflight, keyPending, exitReason, cancelled,
                   key, detLog, anaLog, evtLog, sentLog,
                   deliveryLog, lastDelivery, shown>>

\* the user presses 'q' or 's' in the display window while the loop runs; the
\* key waits in the window's event queue until cv2.waitKey reads it
PressKey ==
    /\ pc \in LoopPcs
    /\ show_video
    /\ keyPending = "none"
    /\ keyPending' \in {"q", "s"}
    /\ UNCHANGED <<pc, density_zones, frame_shape, detections, analysis_data,
                   events, frame_count, show_video, save_video, cap, out,
                   inflight, exitReason, cancelled, key, detLog, anaLog,
                   evtLog, sentLog, deliveryLog, lastDelivery, shown,
                   written>>

\* key = cv2.waitKey(1) & 0xFF: the key is taken out of the queue
WaitKey ==
    /\ pc = "wait_key"
    /\ key' = keyPending
    /\ keyPending' = "none"
    /\ pc' = "handle_key"
    /\ UNCHANGED <<density_zones, frame_shape, detections, analysis_data,
                   events, frame_count, show_video, save_video, cap, out,
                   inflight, exitReason, cancelled, detLog, anaLog,
                   evtLog, sentLog, deliveryLog, lastDelivery, shown,
                   written>>

\* if key == ord('q'): break; elif key == ord('s'): the frame is written to
\* a screenshot file and a line printed; the FPS line is printed every 30
\* frames: neither changes a variable of the program
HandleKey ==
    /\ pc = "handle_key"
    /\ IF key = "q"
       THEN /\ pc' = "release_cap"
            /\ exitReason' = "quit_key"
       ELSE /\ pc' = "read"
            /\ UNCHANGED exitReason
    /\ UNCHANGED <<density_zones, frame_shape, detections, analysis_data,
                   events, frame_count, show_video, save_video, cap, out,
                   inflight, keyPending, cancelled, key, detLog, anaLog,
                   evtLog, sentLog, deliveryLog, lastDelivery, shown,
                   written>>

\* KeyboardInterrupt is raised wherever the try block stands, also inside a
\* blocking call ('except Exception' of send_to_backend does not catch it);
\* 'except KeyboardInterrupt' of run_analysis prints and falls to finally
Interrupt ==
    /\ pc \in LoopPcs
    /\ pc' = "release_cap"
    /\ exitReason' = "interrupt"
    /\ cancelled' = IF pc \in BlockingPcs THEN pc ELSE "none"
    /\ UNCHANGED <<density_zones, frame_shape, detections, analysis_data,
                   events, frame_count, show_video, save_video, cap, out,
                   inflight, keyPending, key, detLog, anaLog,
                   evtLog, sentLog, deliveryLog, lastDelivery, shown,
                   written>>

\* finally: if self.cap: self.cap.release()
ReleaseCap ==
    /\ pc = "release_cap"
    /\ cap' = "released"
    /\ pc' = "release_out"
    /\ UNCHANGED <<density_zones, frame_shape, detections, analysis_data,
                   events, frame_count, show_video, save_video, out,
                   inflight, keyPending, exitReason, cancelled,
                   key, detLog, anaLog, evtLog, sentLog,
                   deliveryLog, lastDelivery, shown, written>>

\* finally: if out: out.release()
ReleaseOut ==
    /\ pc = "release_out"
    /\ out' = IF out = "open" THEN "released" ELSE out
    /\ pc' = "destroy_windows"
    /\ UNCHANGED <<density_zones, frame_shape, detections, analysis_data,
                   events, frame_count, show_video, save_video, cap,
                   inflight, keyPending, exitReason, cancelled,
                   key, detLog, anaLog, evtLog, sentLog,
                   deliveryLog, lastDelivery, shown, written>>

\* finally: cv2.destroyAllWindows(); print("Cleanup completed"); return
DestroyWindows ==
    /\ pc = "destroy_windows"
    /\ pc' = "done"
    /\ UNCHANGED <<density_zones, frame_shape, detections, analysis_data,
                   events, frame_count, show_video, save_video, cap, out,
                   inflight, keyPending, exitReason, cancelled,
                   key, detLog, anaLog, evtLog, sentLog,
                   deliveryLog, lastDelivery, shown, written>>

\* KeyboardInterrupt raised outside the try block: in initialize_camera
\* (before cv2.VideoCapture returns, or after it, with the capture opened or
\* not), which 'except Exception' does not catch, or between the calls of
\* the finally block.  No handler is left: the exception leaves run_analysis
\* and the calls not yet made are skipped.
InterruptOutsideTry ==
    /\ pc \in {"init"} \cup CleanupPcs
    /\ cap' \in IF pc = "init" THEN {"none", "unopened", "open"} ELSE {cap}
    /\ pc' = "aborted"
    /\ UNCHANGED <<density_zones, frame_shape, detections, analysis_data,
                   events, frame_count, show_video, save_video, out,
                   inflight, keyPending, exitReason, cancelled,
                   key, detLog, anaLog, evtLog, sentLog,
                   deliveryLog, lastDelivery, shown, written>>

Next ==
    \/ InitializeCamera
    \/ Read
    \/ Detect
    \/ Analyze
    \/ Classify
    \/ Send
    \/ DispatchReturn
    \/ Show
    \/ OpenWriter
    \/ Write
    \/ PressKey
    \/ WaitKey
    \/ HandleKey
    \/ Interrupt
    \/ ReleaseCap
    \/ ReleaseOut
    \/ DestroyWindows
    \/ InterruptOutsideTry

Spec == Init /\ [][Next]_vars


----------------------------------------------------------------------------
(* Claims about the pure functions *)

\* C6: analyze_crowd_density returns density = total_count / (w*h/10000), or 0
\* when w*h is 0; the level is critical iff density > 2.0, high iff
\* 1.5 < density <= 2.0, medium iff 0.8 < density <= 1.5 and low otherwise, so
\* a density on a threshold takes the lower tier; and a report of any other
\* input with a density at least as large has a level at least as high.
C6_DensityLevel ==
    Analyzed =>
        LET r == analysis_data
            d == r.density_per_sqm
            n == Len(detections)
            wh == frame_shape[1] * frame_shape[2]
        IN  /\ r.total_count = n
            /\ d.den > 0
            /\ (wh = 0 => d.num = 0)
            /\ (wh > 0 => d.num * wh = n * 10000 * d.den)
            /\ (r.density_level = "critical" <=> d.num > 2 * d.den)
            /\ (r.density_level = "high" <=>
                    (2 * d.num > 3 * d.den /\ d.num <= 2 * d.den))
            /\ (r.density_level = "medium" <=>
                    (5 * d.num > 4 * d.den /\ 2 * d.num <= 3 * d.den))
            /\ (r.density_level = "low" <=> 5 * d.num <= 4 * d.den)
            /\ \A n2 \in 0..MaxDets : \A s2 \in Shapes :
                   LET r2 == analyze_crowd_density(
                                 Repeat(Detection(0, 0), n2), s2, density_zones)
                       d2 == r2.density_per_sqm
                   IN  d2.num * d.den >= d.num * d2.den =>
                           LevelRank(r2.density_level) >= LevelRank(r.density_level)

\* a density of exactly 2.0 reported as high, not critical
C6_Witness ==
    /\ Analyzed
    /\ analysis_data.total_count > 0
    /\ analysis_data.density_per_sqm.num = 2 * analysis_data.density_per_sqm.den
    /\ analysis_data.density_level = "high"

\* C9: zone_counts[z] is the number of detections whose center satisfies
\* z.x <= cx <= z.x+z.w and z.y <= cy <= z.y+z.h, each zone on its own;
\* total_count is the number of detections whatever their zones; a zone that
\* covers the whole frame counts every detection of the frame.
C9_ZoneCounts ==
    Analyzed =>
        LET r == analysis_data
            Inside(z) ==
                {i \in 1..Len(detections) :
                    /\ density_zones[z].x <= detections[i].center[1]
                    /\ detections[i].center[1] <= density_zones[z].x + density_zones[z].w
                    /\ density_zones[z].y <= detections[i].center[2]
                    /\ detections[i].center[2] <= density_zones[z].y + density_zones[z].h}
            InFrame(i) ==
                /\ 0 <= detections[i].center[1]
                /\ detections[i].center[1] <= frame_shape[2]
                /\ 0 <= detections[i].center[2]
                /\ detections[i].center[2] <= frame_shape[1]
        IN  /\ DOMAIN r.zone_counts = DOMAIN density_zones
            /\ r.total_count = Len(detections)
            /\ \A z \in DOMAIN density_zones :
                   r.zone_counts[z] = Cardinality(Inside(z))
            /\ (/\ density_zones = WholeFrameZones(frame_shape)
                /\ \A i \in 1..Len(detections) : InFrame(i))
               => r.zone_counts["frame"] = r.total_count

\* one center on the corner shared by 'entrance' and 'center', counted in
\* both, one center on the right edge of 'entrance', and one outside every zone
C9_Witness ==
    /\ Analyzed
    /\ DOMAIN density_zones = {"entrance", "center", "exit"}
    /\ Len(detections) = 3
    /\ \E i \in 1..3 : detections[i] = Detection(200, 150)
    /\ \E i \in 1..3 : detections[i] = Detection(200, 75)
    /\ \E i \in 1..3 : detections[i] = Detection(201, 75)
    /\ analysis_data.zone_counts["entrance"] = 2
    /\ analysis_data.zone_counts["center"] = 1
    /\ analysis_data.zone_counts["exit"] = 0
    /\ analysis_data.total_count = 3

EventsOf(action) == {i \in 1..Len(events) : events[i].action = action}

\* C7: detect_crowd_events emits one overcrowding_detected event iff
\* total_count > 20, with severity high if total_count > 30 and medium
\* otherwise, whatever the density level and the zone counts; the event
\* carries the report's total_count and density_level.
C7_Overcrowding ==
    pc = "events_done" =>
        LET over == EventsOf("overcrowding_detected")
            r == analysis_data
        IN  /\ (over # {} <=> r.total_count > 20)
            /\ Cardinality(over) <= 1
            /\ \A i \in over :
                   /\ events[i].severity = IF r.total_count > 30 THEN "high" ELSE "medium"
                   /\ events[i].crowd_count = r.total_count
                   /\ events[i].density_level = r.density_level

\* 22 heads in a 1280x720 frame: density level low, overcrowding of severity
\* medium all the same
C7_Witness ==
    /\ pc = "events_done"
    /\ analysis_data.total_count = 22
    /\ analysis_data.density_level = "low"
    /\ frame_shape = CameraShape
    /\ \E i \in EventsOf("overcrowding_detected") : events[i].severity = "medium"

\* C8: detect_crowd_events emits one crowd_gathering event of severity medium
\* iff some zone count exceeds 8 (never without zones), whether or not an
\* overcrowding event fired; the sequence holds overcrowding_detected first,
\* crowd_gathering second, and nothing else.
C8_Gathering ==
    pc = "events_done" =>
        LET over == EventsOf("overcrowding_detected")
            gath == EventsOf("crowd_gathering")
            r == analysis_data
        IN  /\ (gath # {} <=> \E z \in DOMAIN r.zone_counts : r.zone_counts[z] > 8)
            /\ Cardinality(gath) <= 1
            /\ \A i \in gath :
                   /\ events[i].severity = "medium"
                   /\ events[i].crowd_count = r.total_count
                   /\ events[i].density_level = r.density_level
            /\ over \cup gath = 1..Len(events)
            /\ (over # {} /\ gath # {}) => (over = {1} /\ gath = {2})

\* both events in one cycle, in order
C8_Witness ==
    /\ pc = "events_done"
    /\ Len(events) = 2
    /\ events[1].action = "overcrowding_detected"
    /\ events[2].action = "crowd_gathering"

----------------------------------------------------------------------------
(* Claims about run_analysis and send_to_backend *)

Cycles == frame_count \div 3

\* C1: numbering the acquired frames 1, 2, 3, ..., detection, analysis,
\* classification and dispatch have each run exactly once on every frame that
\* is a multiple of 3 and on no other, so that after n acquired frames (the
\* loop about to acquire the next one, or run_analysis ended) exactly
\* floor(n/3) envelopes have been handed over; and the envelope in flight
\* holds the report and the events computed from its own frame's detections.
C1_OncePerSampledFrame ==
    /\ pc \in {"read", "done"} =>
           /\ Len(detLog) = Cycles
           /\ Len(anaLog) = Cycles
           /\ Len(evtLog) = Cycles
           /\ Len(sentLog) = Cycles
           /\ \A i \in 1..Cycles :
                  /\ detLog[i] = 3 * i
                  /\ anaLog[i] = 3 * i
                  /\ evtLog[i] = 3 * i
                  /\ sentLog[i] = 3 * i
    /\ pc = "dispatch" =>
           LET report == analyze_crowd_density(detections, frame_shape, density_zones)
           IN  /\ inflight.analysis = report
               /\ inflight.events = detect_crowd_events(report)

IsDeliveryFailure(outcome) ==
    \/ outcome.exc # "none"
    \/ outcome.status_code \notin 200..299

\* C2: whatever the envelope, when the request ends in a transport error, a
\* timeout or a status outside 2xx, send_to_backend lets no exception out,
\* the report and the event list stay as they were, and the loop stands at
\* the presentation of the same frame, its capture still open; no delivery
\* ever ends the loop.
C2_FailureNonFatal ==
    /\ [](exitReason # "exception")
    /\ [][(pc = "dispatch" /\ pc' # "dispatch" /\ exitReason' # "interrupt") =>
             /\ Len(deliveryLog') = Len(deliveryLog) + 1
             /\ lastDelivery'.frame = frame_count
             /\ IsDeliveryFailure(lastDelivery'.outcome) =>
                    /\ ~lastDelivery'.raised
                    /\ lastDelivery'.log # "sent"
                    /\ pc' = "show"
                    /\ analysis_data' = analysis_data
                    /\ events' = events
                    /\ frame_count' = frame_count
                    /\ cap' = "open"]_vars

\* a timed out delivery of a report of two persons; its frame was shown and
\* the next frame acquired
C2_Witness ==
    /\ show_video
    /\ frame_count = 4
    /\ Len(deliveryLog) = 1
    /\ lastDelivery.outcome = Raises("Timeout")
    /\ lastDelivery.log = "failed"
    /\ analysis_data.total_count = 2
    /\ Len(shown) >= 3

\* C3: once the loop has been left (failed read, quit key, interrupt) and
\* run_analysis has ended, the capture is released and the recorder, if it
\* was opened, is released.
C3_Finalization ==
    (pc \in {"done", "aborted"} /\ exitReason \in {"read_failed", "quit_key", "interrupt"})
        => (cap = "released" /\ out # "open")

\* frame k went to every collaborator of the run: the display window, which
\* a run has when show_video is set, and the recorder, which it has when
\* save_video is set
Presented(k) ==
    /\ show_video => \E j \in 1..Len(shown) : shown[j].frame = k
    /\ save_video => \E j \in 1..Len(written) : written[j] = k

\* C4: every acquired frame has been handed to the display and the recorder
\* of the run in its own iteration, sampled or not and whatever its dispatch
\* came to: when the loop is about to acquire the next frame, or run_analysis
\* has ended, no acquired frame is left unpresented.
C4_EveryFramePresented ==
    pc \in {"read", "done"} => \A k \in 1..frame_count : Presented(k)

\* C5: a delivery is logged as a success iff the endpoint answered 2xx, and
\* as a failure iff the request raised, timed out or was answered outside 2xx.
C5_Classification ==
    Len(deliveryLog) > 0 =>
        /\ lastDelivery.log = "sent" <=> ~IsDeliveryFailure(lastDelivery.outcome)
        /\ lastDelivery.log \in {"failed", "backend_response"}
               <=> IsDeliveryFailure(lastDelivery.outcome)

\* C10: no quit signal, key or interrupt, cuts short a detection or a
\* dispatch call in flight: when finalization begins, the calls of the
\* current iteration have completed.
C10_NoMidCycleCancellation ==
    pc \in CleanupPcs \cup {"done", "aborted"} =>
        cancelled \notin {"detect", "dispatch"}

====
